---- MODULE Spec2Model ----
(***************************************************************************)
(* A model of src/index.ts: the generic request function, the five verb    *)
(* wrappers that call it, the error factories and the name-keyed error     *)
(* dispatch handleErrors.                                                  *)
(*                                                                         *)
(* JavaScript runs request to its next await without interruption, so an   *)
(* action is one such run: from the call to `await fetch`, from the        *)
(* settlement of fetch to `await response.json()` or to the end of the     *)
(* call, and from the settlement of json() to the end of the call.  Several*)
(* calls may be pending at once; they interleave at the awaits only.       *)
(*                                                                         *)
(* fetch, the response object and the zod schema are what request is given: *)
(* fetch settles with a response, of which request reads the two           *)
(* properties ok and status independently, or rejects with a TypeError, or *)
(* with an AbortError once its signal has been aborted; json() resolves    *)
(* with the decoded body or rejects with a SyntaxError; schema.parse       *)
(* returns the (stripped) value, throws a ZodError, or lets through        *)
(* whatever a callback of the schema throws.                               *)
(*                                                                         *)
(* Spec is one call with every input; SpecConcurrent is MaxCalls calls     *)
(* pending together, with fewer inputs each.                               *)
(***************************************************************************)
EXTENDS Integers, Sequences, FiniteSets, TLC

\* Number of request calls that may be pending together.
MaxCalls == 2

Calls == 1..MaxCalls

VARIABLES
    pc,         \* pc[i]: "idle", "awaitFetch", "awaitJson" or "done"
    schema,     \* schema[i]: the responseSchema the call was given
    inflight,   \* inflight[i]: the init object of the pending fetch, or None
    controller, \* controller[i]: the AbortController of the call, 0 before it is made
    aborts,     \* aborts[c]: how many times abort() was called on controller c
    fetches,    \* fetches[i]: how many times the call has called fetch
    response,   \* response[i]: the Response fetch resolved with, or None
    decoded,    \* decoded[i]: the value response.json() resolved with, or None
    thrown,     \* thrown[i]: the value that entered the catch clause, or None
    handlers,   \* handlers[i]: the functions handleErrors has invoked, in order
    events,     \* events[i]: what the call has done so far, in order
    outcome     \* outcome[i]: how the promise of the call has settled, or None

vars == <<pc, schema, inflight, controller, aborts, fetches, response,
          decoded, thrown, handlers, events, outcome>>

None == [tag |-> "none"]

(***************************************************************************)
(* Values                                                                  *)
(***************************************************************************)

HTTPMethods == {"GET", "POST", "PUT", "PATCH", "DELETE"}

HTTPHeadersContentType == [application_json |-> "Content-Type: application/json"]

\* new Error(message) with its name set.
Error(name, message) == [tag |-> "Error", name |-> name, message |-> message]

\* A thrown value that is not an instance of Error (throw "boom").
NonError == [tag |-> "string", value |-> "boom"]

createNetworkError(message) == Error("NetworkError", message)

createClientError(message) == Error("ClientError", message)

createServerError(message) == Error("ServerError", message)

(***************************************************************************)
(* The platform: Response, fetch failures, json(), zod                     *)
(***************************************************************************)

\* Stands for a response whose status property is undefined.
NoStatus == -1

Statuses == {NoStatus, 0, 200, 302, 399, 400, 404, 499, 500, 503}

StatusText(s) ==
    CASE s = 200 -> "OK"
      [] s = 302 -> "Found"
      [] s = 400 -> "Bad Request"
      [] s = 404 -> "Not Found"
      [] s = 500 -> "Internal Server Error"
      [] s = 503 -> "Service Unavailable"
      [] OTHER   -> ""

\* A response object: request reads its ok, status and statusText.
Response(ok, s) ==
    [tag |-> "Response", ok |-> ok, status |-> s, statusText |-> StatusText(s)]

Responses == {Response(ok, s) : ok \in BOOLEAN, s \in Statuses}

\* The responses of the calls of SpecConcurrent.
ConcurrentResponses == {Response(TRUE, 200), Response(FALSE, 500)}

\* status >= n and status < n in JavaScript: false when status is undefined.
GreaterOrEqual(status, n) == status # NoStatus /\ status >= n

Less(status, n) == status # NoStatus /\ status < n

FetchTypeError == Error("TypeError", "fetch failed")

FetchAbortError == Error("AbortError", "This operation was aborted")

\* What a pending fetch can reject with: a TypeError, or an AbortError once
\* the signal it was given has been aborted.
TransportFailures(init) ==
    {FetchTypeError} \cup
        (IF aborts[init["signal"]] > 0 THEN {FetchAbortError} ELSE {})

JsonSyntaxError == Error("SyntaxError", "Unexpected token < in JSON")

Ana == [id |-> 1, name |-> "Ana"]

AnaExtra == [id |-> 1, name |-> "Ana", role |-> "admin"]

NoName == [id |-> 1]

\* The values response.json() can resolve with.
Bodies == {Ana, AnaExtra, NoName}

ZodError == Error("ZodError", "Required: name")

\* What a callback of a schema (refine, transform) can throw: parse does not
\* catch it.
CallbackThrows == {Error("__proto__", "x"), Error("toString", "x"), NonError}

\* z.object({id: z.number(), name: z.string()})
UserSchema == [shape |-> {"id", "name"}, callback |-> None]

\* UserSchema with a callback that throws v.
Throwing(v) == [shape |-> {"id", "name"}, callback |-> v]

Schemas == {UserSchema} \cup {Throwing(v) : v \in CallbackThrows}

\* The bodies of the calls of SpecConcurrent.
ConcurrentBodies == {Ana, NoName}

\* responseSchema.parse(d): a zod object fails on a missing key and strips
\* the keys it does not know.
parse(s, d) ==
    IF ~(s.shape \subseteq DOMAIN d)
    THEN [returned |-> None, threw |-> ZodError]
    ELSE IF s.callback # None
         THEN [returned |-> None, threw |-> s.callback]
         ELSE [returned |-> [k \in s.shape |-> d[k]], threw |-> None]

(***************************************************************************)
(* handleErrors                                                            *)
(***************************************************************************)

\* The own properties of the errorHandlers object literal.
errorHandlers ==
    [AbortError   |-> "handleAbortError",
     NetworkError |-> "handleNetworkError",
     ClientError  |-> "handleClientError",
     ServerError  |-> "handleServerError"]

\* Properties an object literal inherits (two of those of Object.prototype):
\* toString is a function that returns when called without a receiver,
\* __proto__ is Object.prototype itself, an object that cannot be called.
ObjectPrototype ==
    ("toString" :> "Object.prototype.toString") @@
    ("__proto__" :> "Object.prototype")

Callable ==
    {"handleAbortError", "handleNetworkError", "handleClientError",
     "handleServerError", "handleUnexpectedError", "Object.prototype.toString"}

\* errorHandlers[name]: own properties first, then the prototype chain.
Lookup(name) ==
    IF name \in DOMAIN errorHandlers THEN errorHandlers[name]
    ELSE IF name \in DOMAIN ObjectPrototype THEN ObjectPrototype[name]
    ELSE "undefined"

\* handleErrors(error): the functions it invokes and the value it throws.
handleErrors(error) ==
    LET found == Lookup(error.name)
        errorHandler == IF found = "undefined" THEN "handleUnexpectedError"
                        ELSE found
    IN  IF errorHandler \in Callable
        THEN [invoked |-> <<errorHandler>>, threw |-> None]
        ELSE [invoked |-> <<>>,
              threw |-> Error("TypeError", "errorHandler is not a function")]

(***************************************************************************)
(* request                                                                 *)
(***************************************************************************)

\* One AbortController made at module level and used by every call.
SharedAbortController(i) == 1

\* new AbortController(): a fresh object, named after the call that makes it.
NewAbortController(i) == i

\* { ...config, signal }
FetchInit(config, signal) ==
    [k \in DOMAIN config \cup {"signal"} |->
        IF k = "signal" THEN signal ELSE config[k]]

\* `${response.status}: ${response.statusText}`
Message(r) == ToString(r.status) \o ": " \o r.statusText

\* StatusCheck with `> 400` written for `>= 400`.
StatusCheckAbove400(r) ==
    IF ~r.ok
    THEN IF r.status > 400 /\ Less(r.status, 500)
         THEN createClientError(Message(r))
         ELSE IF GreaterOrEqual(r.status, 500)
              THEN createServerError(Message(r))
              ELSE None
    ELSE None

\* StatusCheck without the test of response.ok.
StatusCheckIgnoringOk(r) ==
    IF GreaterOrEqual(r.status, 400) /\ Less(r.status, 500)
    THEN createClientError(Message(r))
    ELSE IF GreaterOrEqual(r.status, 500)
         THEN createServerError(Message(r))
         ELSE None

\* The status check after fetch: the error it throws, or None.
StatusCheck(r) ==
    IF ~r.ok
    THEN IF GreaterOrEqual(r.status, 400) /\ Less(r.status, 500)
         THEN createClientError(Message(r))
         ELSE IF GreaterOrEqual(r.status, 500)
              THEN createServerError(Message(r))
              ELSE None
    ELSE None

\* Catch throwing a new Error made from the one it caught.
CatchWrapping(error) ==
    IF error.tag = "Error"
    THEN LET h == handleErrors(error)
         IN  [events   |-> <<"catch", "handleErrors">>,
              invoked  |-> h.invoked,
              rethrown |-> Error("Error", error.message)]
    ELSE [events |-> <<"catch">>, invoked |-> <<>>, rethrown |-> error]

\* Catch turning every Error it caught into a NetworkError before dispatch.
CatchReclassifying(error) ==
    IF error.tag = "Error"
    THEN LET e == createNetworkError(error.message)
             h == handleErrors(e)
         IN  [events   |-> <<"catch", "handleErrors">>,
              invoked  |-> h.invoked,
              rethrown |-> e]
    ELSE [events |-> <<"catch">>, invoked |-> <<>>, rethrown |-> error]

\* The catch clause: what it does with the value it caught, and the value
\* that leaves it.
Catch(error) ==
    IF error.tag = "Error"
    THEN LET h == handleErrors(error)
         IN  [events   |-> IF h.threw # None
                           THEN <<"catch", "handleErrors", "handleErrors throws">>
                           ELSE <<"catch", "handleErrors">>,
              invoked  |-> h.invoked,
              rethrown |-> IF h.threw # None THEN h.threw ELSE error]
    ELSE [events |-> <<"catch">>, invoked |-> <<>>, rethrown |-> error]

\* Finally without the call of abort.
FinallyWithoutAbort(ab, c) == ab

\* The finally clause: abortController.abort().
Finally(ab, c) == [ab EXCEPT ![c] = @ + 1]

\* The call ends by throwing: catch, finally, and the promise is rejected.
Fail(i, before, error) ==
    LET c == Catch(error)
    IN  /\ thrown'   = [thrown EXCEPT ![i] = error]
        /\ handlers' = [handlers EXCEPT ![i] = @ \o c.invoked]
        /\ events'   = [events EXCEPT
                           ![i] = @ \o before \o c.events \o <<"abort", "settle">>]
        /\ aborts'   = Finally(aborts, controller[i])
        /\ outcome'  = [outcome EXCEPT
                           ![i] = [tag |-> "rejected", value |-> c.rethrown]]
        /\ pc'       = [pc EXCEPT ![i] = "done"]

\* The call ends by returning: finally, and the promise is resolved.
Return(i, before, value) ==
    /\ events'  = [events EXCEPT ![i] = @ \o before \o <<"abort", "settle">>]
    /\ aborts'  = Finally(aborts, controller[i])
    /\ outcome' = [outcome EXCEPT ![i] = [tag |-> "resolved", value |-> value]]
    /\ pc'      = [pc EXCEPT ![i] = "done"]
    /\ UNCHANGED <<thrown, handlers>>

\* request(url, config, responseSchema) up to `await fetch(...)`.
request(i, config, responseSchema) ==
    /\ pc[i] = "idle"
    /\ LET abortController == NewAbortController(i)
       IN  /\ controller' = [controller EXCEPT ![i] = abortController]
           /\ inflight'   = [inflight EXCEPT
                                ![i] = FetchInit(config, abortController)]
    /\ schema'  = [schema EXCEPT ![i] = responseSchema]
    /\ fetches' = [fetches EXCEPT ![i] = @ + 1]
    /\ events'  = [events EXCEPT ![i] = @ \o <<"AbortController", "fetch">>]
    /\ pc'      = [pc EXCEPT ![i] = "awaitFetch"]
    /\ UNCHANGED <<aborts, response, decoded, thrown, handlers, outcome>>

\* The config of _get without its cache mode.
GetConfigWithoutCache == [method |-> "GET", headers |-> "X-API-KEY"]

GetConfig ==
    [method |-> "GET", cache |-> "no-store", headers |-> "X-API-KEY"]

BodyConfig(method) ==
    [method  |-> method, body |-> "JSON.stringify(query)",
     headers |-> HTTPHeadersContentType.application_json]

_get(i, responseSchema) == request(i, GetConfig, responseSchema)

_post(i, responseSchema) == request(i, BodyConfig("POST"), responseSchema)

_put(i, responseSchema) == request(i, BodyConfig("PUT"), responseSchema)

_patch(i, responseSchema) == request(i, BodyConfig("PATCH"), responseSchema)

_delete(i, responseSchema) == request(i, BodyConfig("DELETE"), responseSchema)

\* fetch resolves with r: the status check, then either the call fails or it
\* calls response.json() and waits for it.
FetchResolved(i, r) ==
    /\ pc[i] = "awaitFetch"
    /\ inflight' = [inflight EXCEPT ![i] = None]
    /\ response' = [response EXCEPT ![i] = r]
    /\ IF StatusCheck(r) # None
       THEN Fail(i, <<"response", "throw">>, StatusCheck(r))
       ELSE /\ events' = [events EXCEPT ![i] = @ \o <<"response", "json">>]
            /\ pc'     = [pc EXCEPT ![i] = "awaitJson"]
            /\ UNCHANGED <<aborts, thrown, handlers, outcome>>
    /\ UNCHANGED <<schema, controller, fetches, decoded>>

\* fetch rejects with v.
FetchRejected(i, v) ==
    /\ pc[i] = "awaitFetch"
    /\ v \in TransportFailures(inflight[i])
    /\ inflight' = [inflight EXCEPT ![i] = None]
    /\ Fail(i, <<"throw">>, v)
    /\ UNCHANGED <<schema, controller, fetches, response, decoded>>

\* JsonResolved returning the decoded body without parsing it.
JsonResolvedUnparsed(i, d) ==
    /\ pc[i] = "awaitJson"
    /\ decoded' = [decoded EXCEPT ![i] = d]
    /\ Return(i, <<"decoded">>, d)
    /\ UNCHANGED <<schema, inflight, controller, fetches, response>>

\* response.json() resolves with d: responseSchema.parse(d) returns or throws.
JsonResolved(i, d) ==
    /\ pc[i] = "awaitJson"
    /\ decoded' = [decoded EXCEPT ![i] = d]
    /\ LET p == parse(schema[i], d)
       IN  IF p.threw # None
           THEN Fail(i, <<"decoded", "parse", "throw">>, p.threw)
           ELSE Return(i, <<"decoded", "parse">>, p.returned)
    /\ UNCHANGED <<schema, inflight, controller, fetches, response>>

\* response.json() rejects with v.
JsonRejected(i, v) ==
    /\ pc[i] = "awaitJson"
    /\ Fail(i, <<"throw">>, v)
    /\ UNCHANGED <<schema, inflight, controller, fetches, response, decoded>>

Init ==
    /\ pc         = [i \in Calls |-> "idle"]
    /\ schema     = [i \in Calls |-> None]
    /\ inflight   = [i \in Calls |-> None]
    /\ controller = [i \in Calls |-> 0]
    /\ aborts     = [c \in Calls |-> 0]
    /\ fetches    = [i \in Calls |-> 0]
    /\ response   = [i \in Calls |-> None]
    /\ decoded    = [i \in Calls |-> None]
    /\ thrown     = [i \in Calls |-> None]
    /\ handlers   = [i \in Calls |-> <<>>]
    /\ events     = [i \in Calls |-> <<>>]
    /\ outcome    = [i \in Calls |-> None]

\* One call, with every input.
Next ==
    \/ \E s \in Schemas : _get(1, s)
    \/ \E s \in Schemas : _post(1, s)
    \/ \E s \in Schemas : _put(1, s)
    \/ \E s \in Schemas : _patch(1, s)
    \/ \E s \in Schemas : _delete(1, s)
    \/ \E r \in Responses : FetchResolved(1, r)
    \/ \E v \in {FetchTypeError, FetchAbortError} : FetchRejected(1, v)
    \/ \E d \in Bodies : JsonResolved(1, d)
    \/ JsonRejected(1, JsonSyntaxError)

Spec == Init /\ [][Next]_vars

\* MaxCalls calls, interleaved at their awaits in every order.
NextConcurrent ==
    \/ \E i \in Calls : _get(i, UserSchema)
    \/ \E i \in Calls : _post(i, UserSchema)
    \/ \E i \in Calls : _put(i, UserSchema)
    \/ \E i \in Calls : _patch(i, UserSchema)
    \/ \E i \in Calls : _delete(i, UserSchema)
    \/ \E i \in Calls, r \in ConcurrentResponses : FetchResolved(i, r)
    \/ \E i \in Calls, v \in {FetchTypeError, FetchAbortError} :
          FetchRejected(i, v)
    \/ \E i \in Calls, d \in ConcurrentBodies : JsonResolved(i, d)
    \/ \E i \in Calls : JsonRejected(i, JsonSyntaxError)

SpecConcurrent == Init /\ [][NextConcurrent]_vars

(***************************************************************************)
(* Properties                                                              *)
(***************************************************************************)

Count(seq, e) == Cardinality({k \in DOMAIN seq : seq[k] = e})

Pending(i) == pc[i] \in {"awaitFetch", "awaitJson"}

Rejected(v) == [tag |-> "rejected", value |-> v]

Resolved(v) == [tag |-> "resolved", value |-> v]

Happened(i, e) == Count(events[i], e) > 0

\* C1: every call makes exactly one AbortController and aborts it exactly
\* once, on every way out: never while the call is pending, and as the last
\* thing it does (after fetch, json, parse and handleErrors) before its
\* promise settles.
C1_TokenAbortedOnceAtConclusion ==
    \A i \in Calls :
        /\ Count(events[i], "AbortController") = (IF pc[i] = "idle" THEN 0 ELSE 1)
        /\ pc[i] # "idle" => controller[i] \in Calls
        /\ Pending(i) =>
              /\ aborts[controller[i]] = 0
              /\ Count(events[i], "abort") = 0
        /\ pc[i] # "done" => outcome[i] = None
        /\ pc[i] = "done" =>
              /\ aborts[controller[i]] = 1
              /\ Count(events[i], "abort") = 1
              /\ events[i][Len(events[i]) - 1] = "abort"
              /\ events[i][Len(events[i])] = "settle"
              /\ Count(events[i], "settle") = 1
              /\ outcome[i] # None

\* A call that ended on a thrown value that is not an Error, which skipped
\* the dispatch, has aborted its controller once before its promise settled.
C1_Witness ==
    \E i \in Calls :
        /\ pc[i] = "done"
        /\ thrown[i] = NonError
        /\ outcome[i] = Rejected(NonError)
        /\ aborts[controller[i]] = 1
        /\ events[i][Len(events[i]) - 1] = "abort"

\* "<status>: <statusText>"
StatusMessage(r) == ToString(r.status) \o ": " \o r.statusText

\* C2 as stated: a response with a status in 400..499 makes the call fail
\* with a ClientError, one with a status of 500 or more with a ServerError,
\* the message being "<status>: <statusText>", whatever its ok flag is.
C2_Original ==
    \A i \in Calls :
        response[i] # None =>
            LET r == response[i]
            IN  /\ (r.status >= 400 /\ r.status < 500) =>
                        outcome[i] = Rejected(Error("ClientError", StatusMessage(r)))
                /\ r.status >= 500 =>
                        outcome[i] = Rejected(Error("ServerError", StatusMessage(r)))

\* C2 amended: a response whose ok flag is false makes the call fail with a
\* ClientError when its status is in 400..499 and with a ServerError when it
\* is 500 or more, the message being "<status>: <statusText>"; a response
\* whose ok flag is true is not classified, whatever its status, and goes on
\* to decoding.
C2_ClassifiedWhenNotOk ==
    \A i \in Calls :
        response[i] # None =>
            LET r == response[i]
            IN  /\ (~r.ok /\ r.status >= 400 /\ r.status < 500) =>
                        outcome[i] = Rejected(Error("ClientError", StatusMessage(r)))
                /\ (~r.ok /\ r.status >= 500) =>
                        outcome[i] = Rejected(Error("ServerError", StatusMessage(r)))
                /\ r.ok =>
                        /\ Count(events[i], "json") = 1
                        /\ Count(events[i], "response") = Count(events[i], "json")
                        /\ thrown[i] # None =>
                              thrown[i] \notin {Error("ClientError", StatusMessage(r)),
                                                Error("ServerError", StatusMessage(r))}

\* The call answered "500 Internal Server Error", not ok, has failed with
\* the ServerError "500: Internal Server Error".
C2_Witness ==
    \E i \in Calls :
        /\ response[i] = Response(FALSE, 500)
        /\ outcome[i] =
              Rejected(Error("ServerError", "500: Internal Server Error"))
        /\ handlers[i] = <<"handleServerError">>

\* The validator accepts the decoded body of call i.
Accepted(i) ==
    /\ pc[i] = "done"
    /\ response[i] # None /\ response[i].status = 200
    /\ decoded[i] # None
    /\ parse(schema[i], decoded[i]).threw = None

Refused(i) ==
    /\ pc[i] = "done"
    /\ response[i] # None /\ response[i].status = 200
    /\ decoded[i] # None
    /\ ~(schema[i].shape \subseteq DOMAIN decoded[i])

\* C4: with status 200 and a body that fails validation, the call fails with
\* the validator's own error (the ValidationError of the taxonomy, zod's
\* ZodError); no ClientError or ServerError is made and their handlers are
\* not invoked.
C4_ValidationFailurePropagates ==
    \A i \in Calls :
        Refused(i) =>
            /\ thrown[i] = ZodError
            /\ outcome[i] = Rejected(ZodError)
            /\ outcome[i].value.name \notin {"ClientError", "ServerError"}
            /\ handlers[i] = <<"handleUnexpectedError">>

\* A call whose body lacked a required key has failed with the ZodError.
C4_Witness ==
    \E i \in Calls :
        /\ Refused(i)
        /\ decoded[i] = NoName
        /\ outcome[i] = Rejected(ZodError)

\* C5 as stated: every value thrown in the try block goes through
\* handleErrors exactly once and is the value the call fails with.
C5_Claim ==
    \A i \in Calls :
        thrown[i] # None =>
            /\ Count(events[i], "handleErrors") = 1
            /\ outcome[i] = Rejected(thrown[i])

\* The handler the dispatch is said to choose for a name.
ClaimedHandler(name) ==
    IF name \in {"AbortError", "NetworkError", "ClientError", "ServerError"}
    THEN errorHandlers[name]
    ELSE "handleUnexpectedError"

\* C6 as stated: for every error, handleErrors invokes exactly one handler,
\* the one registered for its name or else handleUnexpectedError, and does
\* not throw.
C6_Claim ==
    \A i \in Calls :
        Count(events[i], "handleErrors") > 0 =>
            /\ handlers[i] = <<ClaimedHandler(thrown[i].name)>>
            /\ Count(events[i], "handleErrors throws") = 0

\* The network call of call i is bound to the controller of i and of no
\* other call.
BoundToOwnToken(i) ==
    /\ inflight[i]["signal"] = controller[i]
    /\ \A j \in Calls \ {i} : controller[j] # inflight[i]["signal"]

CacheDisabled(init) == "cache" \in DOMAIN init /\ init["cache"] = "no-store"

\* C7 as stated: every pending network call is bound to the token of its own
\* call and has caching disabled.
C7_Original ==
    \A i \in Calls :
        pc[i] = "awaitFetch" =>
            /\ BoundToOwnToken(i)
            /\ CacheDisabled(inflight[i])

\* C7 amended: every pending network call is bound to the token of its own
\* call, for every method; caching is disabled for the calls made by _get
\* and for no other: neither request nor the other wrappers set a cache mode.
C7_BoundToOwnTokenCacheOffForGet ==
    \A i \in Calls :
        pc[i] = "awaitFetch" =>
            /\ BoundToOwnToken(i)
            /\ inflight[i]["method"] \in HTTPMethods
            /\ CacheDisabled(inflight[i]) <=> (inflight[i]["method"] = "GET")

\* A GET and a POST are pending together, each on its own token, the GET
\* with no-store and the POST without a cache mode.
C7_Witness ==
    \E i, j \in Calls :
        /\ pc[i] = "awaitFetch" /\ inflight[i]["method"] = "GET"
        /\ CacheDisabled(inflight[i])
        /\ pc[j] = "awaitFetch" /\ inflight[j]["method"] = "POST"
        /\ ~CacheDisabled(inflight[j])
        /\ inflight[i]["signal"] # inflight[j]["signal"]

\* What call i owns.
Own(i) ==
    <<pc[i], schema[i], inflight[i], controller[i], fetches[i], response[i],
      decoded[i], thrown[i], handlers[i], events[i], outcome[i]>>

\* The inputs of call i: its schema and what fetch and json() gave it, a
\* value or a rejection.
Inputs(i) ==
    <<schema[i], response[i], decoded[i],
      IF decoded[i] = None THEN thrown[i] ELSE None>>

\* A step leaves alone every call that does not take it, and that call's token.
OthersUntouched ==
    \A i \in Calls :
        pc'[i] = pc[i] =>
            /\ Own(i)' = Own(i)
            /\ controller[i] # 0 => aborts'[controller[i]] = aborts[controller[i]]

\* No two calls share a token, a pending call's token is not aborted, and
\* calls with the same inputs have the same outcome.
NothingShared ==
    \A i \in Calls :
        /\ Pending(i) => aborts[controller[i]] = 0
        /\ \A j \in Calls \ {i} :
              /\ controller[i] # 0 => controller[j] # controller[i]
              /\ (pc[i] = "done" /\ pc[j] = "done" /\ Inputs(i) = Inputs(j))
                    => outcome[i] = outcome[j]

\* C8: in every interleaving of the calls, each call makes and aborts only
\* its own token, the end of one call never aborts the token of a call that
\* is still pending, a step of one call changes nothing of another, and the
\* outcome of a call depends on its own inputs only.
C8_CallsIndependent == [](NothingShared) /\ [][OthersUntouched]_vars

\* One call has ended, its token aborted, while another is still waiting for
\* json() with its own token not aborted.
C8_Witness ==
    \E i, j \in Calls :
        /\ pc[i] = "done" /\ aborts[controller[i]] = 1
        /\ pc[j] = "awaitJson" /\ aborts[controller[j]] = 0
        /\ controller[i] # controller[j]

\* C9 as stated: the body of a response is decoded, and its decoded value
\* passed to the validator, exactly when the status is below 400 or absent.
C9_Original ==
    \A i \in Calls :
        response[i] # None =>
            /\ Happened(i, "json") <=> ~GreaterOrEqual(response[i].status, 400)
            /\ Happened(i, "parse") <=>
                  (~GreaterOrEqual(response[i].status, 400) /\ decoded[i] # None)

\* C9 amended: the body of a response is decoded, and its decoded value
\* passed to the validator, exactly when the ok flag is true or the status is
\* below 400 or absent: a response that is not ok with a status of 400 or
\* more is never decoded or validated, and a response that is not ok with a
\* status below 400 raises no ClientError or ServerError and goes on to
\* decoding and validation.
C9_DecodedIffOkOrBelow400 ==
    \A i \in Calls :
        response[i] # None =>
            LET r == response[i]
                proceeds == r.ok \/ ~GreaterOrEqual(r.status, 400)
            IN  /\ Happened(i, "json") <=> proceeds
                /\ Happened(i, "parse") <=> (proceeds /\ decoded[i] # None)
                /\ (~r.ok /\ ~GreaterOrEqual(r.status, 400)) =>
                      /\ Happened(i, "json")
                      /\ thrown[i] # None /\ thrown[i].tag = "Error" =>
                            thrown[i].name \notin {"ClientError", "ServerError"}

\* A response that is not ok with status 302 has been decoded, validated and
\* returned.
C9_Witness ==
    \E i \in Calls :
        /\ response[i] = Response(FALSE, 302)
        /\ Happened(i, "json") /\ Happened(i, "parse")
        /\ outcome[i] = Resolved(Ana)

\* A response that is not ok without a status has been decoded as well.
C9_WitnessNoStatus ==
    \E i \in Calls :
        /\ response[i] = Response(FALSE, NoStatus)
        /\ Happened(i, "parse")

\* fetch rejected for call i.
TransportFailed(i) == pc[i] = "done" /\ response[i] = None

\* C10: when fetch rejects, the call makes no NetworkError and does not
\* invoke handleNetworkError; the error is dispatched to
\* handleUnexpectedError and is the error the call fails with, and fetch is
\* not called again.
C10_TransportFailureNotReclassified ==
    \A i \in Calls :
        /\ fetches[i] <= 1
        /\ TransportFailed(i) =>
              /\ thrown[i] \in {FetchTypeError, FetchAbortError}
              /\ thrown[i].name # "NetworkError"
              /\ handlers[i] = <<"handleUnexpectedError">>
              /\ outcome[i] = Rejected(thrown[i])
              /\ fetches[i] = 1

\* A call whose fetch rejected has failed with that TypeError after one fetch.
C10_Witness ==
    \E i \in Calls :
        /\ TransportFailed(i)
        /\ outcome[i] = Rejected(FetchTypeError)
        /\ handlers[i] = <<"handleUnexpectedError">>
        /\ fetches[i] = 1

====
